---- MODULE Spec2Model ----
(***************************************************************************)
(* Model of src/graph.py (FixyNN intermediate representation): the Graph   *)
(* container (add_layer / remove_layer / get_ordered_layers), the Layer    *)
(* constructor (boundary walk, op-type classification, bias extraction)    *)
(* and the construction pass parse_tf_graph.                               *)
(*                                                                         *)
(* A TensorFlow graph is a function tf_ops from op ids to [type, inputs].  *)
(* Every op produces one tensor, so a tensor is identified with the op     *)
(* that produces it.  The parameter operands of an op (inputs[1] of a      *)
(* convolution, matrix multiply or bias add) are supplied by the graph     *)
(* provider and are referred to as [op |-> o, index |-> 1].  Tensor shapes *)
(* and op attributes are not represented, so input_shapes, output_shape,   *)
(* weights, kernel_size, strides and padding are left out of a Layer.      *)
(***************************************************************************)
EXTENDS Integers, Sequences, FiniteSets, TLC

VARIABLES
    layers,               \* Graph.layers: sequence of Layer records
    removed_layer_names,  \* Graph.removed_layer_names: sequence of names
    last,                 \* the most recent Graph call (history)
    tf_ops,               \* the tf graph: op id -> [type, inputs]
    endpoints,            \* endpoints dict: layer name -> tensor (op id)
    keys,                 \* iteration order of the endpoints dict
    only_2d,              \* parse_tf_graph argument
    idx,                  \* number of endpoints the loop has finished
    layer,                \* loop variable of parse_tf_graph
    pc,                   \* position in the program
    err,                  \* the exception that ended the pass
    cur_layer,            \* get_ordered_layers: index into layers, 0 = None
    ordered               \* get_ordered_layers: indices collected so far

vars == <<layers, removed_layer_names, last, tf_ops, endpoints, keys, only_2d,
          idx, layer, pc, err, cur_layer, ordered>>

graphVars == <<tf_ops, endpoints, keys, only_2d>>

----------------------------------------------------------------------------
(* Bounds *)

MaxLayers == 2
MaxConn == 1
MaxOps == 3
MaxLayerOps == 3

----------------------------------------------------------------------------
(* Module constants, graph.py 16-27 *)

DEPTHWISE_SEPARABLE_CONV_2D == "ds_conv_2d"
DEPTHWISE_CONV_2D == "dw_conv_2d"
CONV_2D == "conv_2d"
DENSE == "dense"
MAX_POOL_2D == "max_pool_2d"
AVG_POOL_2D == "avg_pool_2d"
FLATTEN == "flatten"

LAYER_TYPES_CONV == {DEPTHWISE_SEPARABLE_CONV_2D, DEPTHWISE_CONV_2D, CONV_2D}
LAYER_TYPES_POOL == {MAX_POOL_2D, AVG_POOL_2D}
LAYER_TYPES_2D == LAYER_TYPES_CONV \cup LAYER_TYPES_POOL
LAYER_TYPES_TRAINABLE == LAYER_TYPES_CONV \cup {DENSE}

----------------------------------------------------------------------------
(* Sequence helpers: Python list semantics *)

Range(s) == {s[i] : i \in 1..Len(s)}

InList(x, s) == \E i \in 1..Len(s) : s[i] = x

IsDupFree(s) == \A i, j \in 1..Len(s) : s[i] = s[j] => i = j

\* every ordering of a finite set
Orderings(S) ==
    {s \in [1..Cardinality(S) -> S] : \A i, j \in 1..Cardinality(S) : s[i] = s[j] => i = j}

\* list.remove(x): delete the first occurrence of x
ListRemove(s, x) ==
    LET i == CHOOSE k \in 1..Len(s) : s[k] = x /\ \A m \in 1..(k - 1) : s[m] # x
    IN  SubSeq(s, 1, i - 1) \o SubSeq(s, i + 1, Len(s))

----------------------------------------------------------------------------
(* Graph container, graph.py 64-123 *)

NoCall == [op |-> "none", name |-> "", before |-> <<>>]

\* lines 73-76 and 82-85: the two guarded list.remove calls on one layer
StripName(l, layer_name) ==
    [l EXCEPT
        !.input_names = IF InList(layer_name, @) THEN ListRemove(@, layer_name) ELSE @,
        !.output_names = IF InList(layer_name, @) THEN ListRemove(@, layer_name) ELSE @]

\* lines 72-76: the loop over self.removed_layer_names, names[1..n] done
RECURSIVE StripNames(_, _, _)
StripNames(l, names, n) ==
    IF n = 0 THEN l ELSE StripName(StripNames(l, names, n - 1), names[n])

\* Graph.add_layer with the scrub loop left out
add_layer_noscrub(l) ==
    /\ layers' = Append(layers, l)
    /\ UNCHANGED removed_layer_names

\* Graph.add_layer
add_layer(l) ==
    /\ layers' = Append(layers, StripNames(l, removed_layer_names, Len(removed_layer_names)))
    /\ UNCHANGED removed_layer_names

\* Graph.remove_layer that strips input_names only
remove_layer_inputs_only(l) ==
    /\ layers' = [i \in 1..Len(layers) |->
                    [layers[i] EXCEPT
                       !.input_names = IF InList(l.name, @) THEN ListRemove(@, l.name) ELSE @]]
    /\ removed_layer_names' = Append(removed_layer_names, l.name)

\* Graph.remove_layer
remove_layer(l) ==
    /\ layers' = [i \in 1..Len(layers) |-> StripName(layers[i], l.name)]
    /\ removed_layer_names' = Append(removed_layer_names, l.name)

\* Graph.remove_layer_references
remove_layer_references(l) == remove_layer(l)

\* Graph.find_layer: index of the first layer with that name, 0 for None
find_layer(name) ==
    IF \E i \in 1..Len(layers) : layers[i].name = name
    THEN CHOOSE i \in 1..Len(layers) :
            layers[i].name = name /\ \A j \in 1..(i - 1) : layers[j].name # name
    ELSE 0

\* Graph.get_input_layer that returns the first layer whatever its inputs
get_input_layer_first ==
    IF Len(layers) > 0 THEN 1 ELSE 0

\* Graph.get_input_layer: index of the first layer with no input names
get_input_layer ==
    IF \E i \in 1..Len(layers) : layers[i].input_names = <<>>
    THEN CHOOSE i \in 1..Len(layers) :
            layers[i].input_names = <<>>
            /\ \A j \in 1..(i - 1) : layers[j].input_names # <<>>
    ELSE 0

\* Graph.get_output_layer
get_output_layer ==
    IF \E i \in 1..Len(layers) : layers[i].output_names = <<>>
    THEN CHOOSE i \in 1..Len(layers) :
            layers[i].output_names = <<>>
            /\ \A j \in 1..(i - 1) : layers[j].output_names # <<>>
    ELSE 0

\* Graph.get_next_layer
get_next_layer(cur) ==
    IF cur # 0 /\ layers[cur].output_names # <<>>
    THEN find_layer(layers[cur].output_names[1])
    ELSE 0

----------------------------------------------------------------------------
(* Direct use of the Graph container: any sequence of add_layer and        *)
(* remove_layer calls on Layer objects.  A Layer's name lists are          *)
(* duplicate free (list(set(..)) at line 170, dict keys at line 175) and   *)
(* do not hold the layer's own name.                                       *)

Names == {"A", "M", "C"}

ConnLists(S) ==
    UNION {Orderings(T) : T \in SUBSET S}

\* the (input_names, output_names) pairs a layer may be handed over with
ConnPairs(S) ==
    {p \in ConnLists(S) \X ConnLists(S) : Len(p[1]) + Len(p[2]) <= MaxConn}

LayerArgs ==
    UNION {{[name |-> n, input_names |-> p[1], output_names |-> p[2]] :
                p \in ConnPairs(Names \ {n})} : n \in Names}

\* remove_layer reads only the name of its argument
RemoveArgs ==
    {l \in LayerArgs : l.input_names = <<>> /\ l.output_names = <<>>}

noGraphInput == <<>>

Init ==
    /\ layers = <<>>
    /\ removed_layer_names = <<>>
    /\ last = NoCall
    /\ tf_ops = noGraphInput
    /\ endpoints = noGraphInput
    /\ keys = <<>>
    /\ only_2d = FALSE
    /\ idx = 0
    /\ layer = "unset"
    /\ pc = "api"
    /\ err = "none"
    /\ cur_layer = 0
    /\ ordered = <<>>

passVars == <<idx, layer, pc, err, cur_layer, ordered>>

CallAddLayer ==
    /\ pc = "api"
    /\ Len(layers) < MaxLayers
    /\ \E l \in LayerArgs :
        /\ add_layer(l)
        /\ last' = [op |-> "add_layer", name |-> l.name,
                    before |-> <<l.input_names, l.output_names>>]
    /\ UNCHANGED <<graphVars, passVars>>

CallRemoveLayer ==
    /\ pc = "api"
    /\ Len(removed_layer_names) < MaxLayers
    /\ \E l \in RemoveArgs :
        /\ remove_layer(l)
        /\ last' = [op |-> "remove_layer", name |-> l.name, before |-> layers]
    /\ UNCHANGED <<graphVars, passVars>>

Next == CallAddLayer \/ CallRemoveLayer

Spec == Init /\ [][Next]_vars

----------------------------------------------------------------------------
(* Layer constructor, graph.py 135-264 *)

\* self._endpoints.values()
EndpointTensors == {endpoints[n] : n \in DOMAIN endpoints}

\* get_layer_name: the first name, in dict order, bound to the tensor
get_layer_name(tensor) ==
    LET i == CHOOSE k \in 1..Len(keys) :
                 endpoints[keys[k]] = tensor
                 /\ \A m \in 1..(k - 1) : endpoints[keys[m]] # tensor
    IN  keys[i]

\* Layer.__get_input_layer_names, as the set the list is built from
RECURSIVE get_input_layer_names(_)
get_input_layer_names(tensor) ==
    UNION {IF inp \in EndpointTensors
           THEN {get_layer_name(inp)}
           ELSE get_input_layer_names(inp) : inp \in tf_ops[tensor].inputs}

\* Layer.__get_output_layer_names that keeps the first match only
get_output_layer_names_first(name) ==
    LET all == SelectSeq(keys, LAMBDA n : name \in get_input_layer_names(endpoints[n]))
    IN  IF all = <<>> THEN <<>> ELSE <<all[1]>>

\* Layer.__get_output_layer_names that also lists the layer's own inputs
get_output_layer_names_both(name) ==
    SelectSeq(keys, LAMBDA n : \/ name \in get_input_layer_names(endpoints[n])
                               \/ n \in get_input_layer_names(endpoints[name]))

\* Layer.__get_output_layer_names
get_output_layer_names(name) ==
    SelectSeq(keys, LAMBDA n : name \in get_input_layer_names(endpoints[n]))

\* Layer.__get_layer_ops that does not stop at endpoint tensors
RECURSIVE get_layer_ops_through(_)
get_layer_ops_through(tensor) ==
    {tensor} \cup UNION {get_layer_ops_through(inp) : inp \in tf_ops[tensor].inputs}

\* Layer.__get_layer_ops
RECURSIVE get_layer_ops(_)
get_layer_ops(tensor) ==
    {tensor} \cup UNION {get_layer_ops(inp) :
                            inp \in {i \in tf_ops[tensor].inputs : i \notin EndpointTensors}}

Returned(v) == [raised |-> FALSE, value |-> v]

Raised(exc, fmt, args) == [raised |-> TRUE, exc |-> exc, fmt |-> fmt, args |-> args]

\* Layer.__get_op_type that tests Conv2D before the separable pattern
get_op_type_conv_first(layer_ops_types) ==
    IF "Conv2D" \in layer_ops_types THEN Returned(CONV_2D)
    ELSE IF "DepthwiseConv2dNative" \in layer_ops_types THEN Returned(DEPTHWISE_CONV_2D)
    ELSE IF "MatMul" \in layer_ops_types THEN Returned(DENSE)
    ELSE IF "MaxPool" \in layer_ops_types THEN Returned(MAX_POOL_2D)
    ELSE IF "AvgPool" \in layer_ops_types THEN Returned(AVG_POOL_2D)
    ELSE IF "Reshape" \in layer_ops_types THEN Returned(FLATTEN)
    ELSE Raised("Exception", "Could not match layer with a known op type", <<>>)

\* Layer.__get_op_type
get_op_type(layer_ops_types) ==
    IF "DepthwiseConv2dNative" \in layer_ops_types /\ "Conv2D" \in layer_ops_types
    THEN Returned(DEPTHWISE_SEPARABLE_CONV_2D)
    ELSE IF "DepthwiseConv2dNative" \in layer_ops_types THEN Returned(DEPTHWISE_CONV_2D)
    ELSE IF "Conv2D" \in layer_ops_types THEN Returned(CONV_2D)
    ELSE IF "MatMul" \in layer_ops_types THEN Returned(DENSE)
    ELSE IF "MaxPool" \in layer_ops_types THEN Returned(MAX_POOL_2D)
    ELSE IF "AvgPool" \in layer_ops_types THEN Returned(AVG_POOL_2D)
    ELSE IF "Reshape" \in layer_ops_types THEN Returned(FLATTEN)
    ELSE Raised("Exception", "Could not match layer with a known op type", <<>>)

\* Layer.__get_op_by_type: the ops it may return (self._layer_ops is a
\* list(set(..)), so which op of the type comes first is not fixed); {} is None
get_op_by_type(layer_ops, op_type) ==
    {o \in layer_ops : tf_ops[o].type = op_type}

\* Layer.__get_bias: every result it may produce.  The dense branch calls
\* __get_op_by_type without self: inside the class the name is mangled to
\* _Layer__get_op_by_type, which is bound nowhere.
get_bias(name, layer_ops, op_type) ==
    IF get_op_by_type(layer_ops, "BiasAdd") # {}
    THEN {Returned([op |-> o, index |-> 1]) : o \in get_op_by_type(layer_ops, "BiasAdd")}
    ELSE IF op_type = DENSE
    THEN {Raised("NameError", "global name '_Layer__get_op_by_type' is not defined", <<>>)}
    ELSE {Raised("Exception", "No bias found in layer: %s", <<name>>)}

\* Layer.__init__: every outcome of constructing the layer of an endpoint,
\* a Layer record or the exception raised (with the op_type set so far)
Layer(name) ==
    LET tensor == endpoints[name]
        layer_ops == get_layer_ops(tensor)
        op_type == get_op_type({tf_ops[o].type : o \in layer_ops})
    IN  IF op_type.raised
        THEN {[raised |-> TRUE, exc |-> op_type.exc, fmt |-> op_type.fmt,
               args |-> op_type.args, value |-> "unset"]}
        ELSE LET biases == IF op_type.value \in LAYER_TYPES_TRAINABLE
                           THEN get_bias(name, layer_ops, op_type.value)
                           ELSE {Returned("unset")}
             IN  {IF b.raised
                  THEN [raised |-> TRUE, exc |-> b.exc, fmt |-> b.fmt, args |-> b.args,
                        value |-> op_type.value]
                  ELSE Returned([name |-> name,
                                 layer_ops |-> layer_ops,
                                 op_type |-> op_type.value,
                                 input_names |-> ins,
                                 output_names |-> get_output_layer_names(name),
                                 bias |-> b.value,
                                 has_relu |-> get_op_by_type(layer_ops, "Relu") # {}]) :
                    b \in biases,
                    ins \in Orderings(get_input_layer_names(tensor))}

----------------------------------------------------------------------------
(* parse_tf_graph, graph.py 328-343 *)

NamePool == <<"A", "B", "C", "D", "E", "F">>

PassTags == {"MaxPool", "Reshape", "Relu"}

LayerTags == {"DepthwiseConv2dNative", "Conv2D", "MatMul", "MaxPool", "AvgPool",
              "Reshape", "BiasAdd", "Add", "Relu", "Identity"}

PassStart ==
    /\ layers = <<>>
    /\ removed_layer_names = <<>>
    /\ last = NoCall
    /\ only_2d \in BOOLEAN
    /\ idx = 0
    /\ layer = "unset"
    /\ pc = "pass"
    /\ err = "none"
    /\ cur_layer = 0
    /\ ordered = <<>>

\* every acyclic graph of up to MaxOps ops (an op reads ops of smaller id),
\* every set of endpoint tensors, every dict order.  An op that is no endpoint
\* and that no op reads is visited by no walk, so such graphs are left out.
Acyclic(n) ==
    {inp \in [1..n -> SUBSET (1..n)] : \A i \in 1..n : \A j \in inp[i] : j < i}

NoDeadOp(n, inp, E) ==
    \A i \in 1..n : IF i \in E THEN TRUE ELSE \E j \in 1..n : i \in inp[j]

InitPass ==
    /\ \E n \in 1..MaxOps :
       \E inp \in Acyclic(n) :
       \E E \in {S \in SUBSET (1..n) : NoDeadOp(n, inp, S)} :
       \E ty \in [1..n -> PassTags] :
          /\ tf_ops = [i \in 1..n |-> [type |-> ty[i], inputs |-> inp[i]]]
          /\ endpoints = [nm \in {NamePool[i] : i \in E} |->
                            CHOOSE i \in E : NamePool[i] = nm]
          /\ keys \in Orderings({NamePool[i] : i \in E})
    /\ PassStart

\* one endpoint whose layer is a chain of up to MaxLayerOps ops of any tags
InitLayer ==
    /\ \E k \in 1..MaxLayerOps :
       \E ty \in [1..k -> LayerTags] :
          /\ tf_ops = [i \in 1..k |-> [type |-> ty[i], inputs |-> {i - 1} \ {0}]]
          /\ endpoints = [n \in {NamePool[1]} |-> k]
          /\ keys = <<NamePool[1]>>
    /\ PassStart

\* lines 336-341, one turn of the loop: construct the layer of the next
\* endpoint; an exception ends the pass, otherwise the layer is removed
\* (only_2d and not a 2D type) or added
ProcessEndpoint ==
    /\ pc = "pass"
    /\ idx < Len(keys)
    /\ \E r \in Layer(keys[idx + 1]) :
        IF r.raised
        THEN /\ err' = [exc |-> r.exc, fmt |-> r.fmt, args |-> r.args, op_type |-> r.value]
             /\ pc' = "error"
             /\ UNCHANGED <<layers, removed_layer_names, last, idx, layer>>
        ELSE /\ layer' = r.value
             /\ idx' = idx + 1
             /\ UNCHANGED <<pc, err>>
             /\ IF only_2d /\ r.value.op_type \notin LAYER_TYPES_2D
                THEN /\ remove_layer_references(r.value)
                     /\ last' = [op |-> "remove_layer", name |-> r.value.name,
                                 before |-> layers]
                ELSE /\ add_layer(r.value)
                     /\ last' = [op |-> "add_layer", name |-> r.value.name,
                                 before |-> <<r.value.input_names, r.value.output_names>>]
    /\ UNCHANGED <<graphVars, cur_layer, ordered>>

\* line 342, graph.print(): get_ordered_layers lines 118-119
StartWalk ==
    /\ pc = "pass"
    /\ idx = Len(keys)
    /\ pc' = "walk"
    /\ ordered' = <<>>
    /\ cur_layer' = get_input_layer
    /\ UNCHANGED <<layers, removed_layer_names, last, graphVars, idx, layer, err>>

\* get_ordered_layers lines 120-122, one turn of the loop; the walk is cut
\* off once it has collected more entries than there are layers
WalkStep ==
    /\ pc = "walk"
    /\ cur_layer # 0
    /\ Len(ordered) <= Len(layers)
    /\ ordered' = Append(ordered, cur_layer)
    /\ cur_layer' = get_next_layer(cur_layer)
    /\ UNCHANGED <<layers, removed_layer_names, last, graphVars, idx, layer, pc, err>>

\* get_ordered_layers line 123, and parse_tf_graph returns
WalkDone ==
    /\ pc = "walk"
    /\ cur_layer = 0
    /\ pc' = "done"
    /\ UNCHANGED <<layers, removed_layer_names, last, graphVars, idx, layer, err,
                   cur_layer, ordered>>

NextPass ==
    \/ ProcessEndpoint
    \/ StartWalk
    \/ WalkStep
    \/ WalkDone

SpecPass == InitPass /\ [][NextPass]_vars

SpecLayer == InitLayer /\ [][NextPass]_vars

----------------------------------------------------------------------------
(* Properties of the Graph container under direct use (Spec) *)

\* C1: after any sequence of add_layer and remove_layer calls no layer of
\* Graph.layers holds a name of removed_layer_names in its input_names or
\* output_names.
C1_NoRemovedNameReferenced ==
    \A i \in 1..Len(layers) :
        \A n \in Range(removed_layer_names) :
            /\ ~InList(n, layers[i].input_names)
            /\ ~InList(n, layers[i].output_names)

\* a layer that names an already removed layer has just been added
C1_Witness ==
    /\ last.op = "add_layer"
    /\ \E n \in Range(removed_layer_names) :
          InList(n, last.before[1]) \/ InList(n, last.before[2])

----------------------------------------------------------------------------
(* Properties of the construction pass (SpecPass) *)

\* the loop of parse_tf_graph has just constructed the last endpoint's layer
AllConstructed == pc = "pass" /\ idx = Len(keys)

LayerNames == {layers[i].name : i \in 1..Len(layers)}

ExactlyOneEntry ==
    Cardinality({i \in 1..Len(layers) : layers[i].input_names = <<>>}) = 1

ExactlyOneExit ==
    Cardinality({i \in 1..Len(layers) : layers[i].output_names = <<>>}) = 1

EachLayerOnce ==
    /\ Len(ordered) = Len(layers)
    /\ \A i \in 1..Len(layers) :
          Cardinality({k \in 1..Len(ordered) : ordered[k] = i}) = 1

\* C3 as stated: for every Graph with exactly one layer without input_names
\* and exactly one without output_names, get_ordered_layers() returns every
\* retained layer exactly once.
C3_Original ==
    (pc = "done" /\ ExactlyOneEntry /\ ExactlyOneExit) => EachLayerOnce

\* C3 amended: for every Graph a completed construction pass produces, with
\* exactly one layer without input_names, exactly one without output_names
\* and no layer with more than one output name, get_ordered_layers() returns
\* every retained layer exactly once.
C3_LinearChainOrdered ==
    (/\ pc = "done"
     /\ ExactlyOneEntry
     /\ ExactlyOneExit
     /\ \A i \in 1..Len(layers) : Len(layers[i].output_names) <= 1) => EachLayerOnce

\* a chain of three layers has been walked, the entry not first in the list
C3_Witness ==
    /\ pc = "done"
    /\ ExactlyOneEntry
    /\ ExactlyOneExit
    /\ \A i \in 1..Len(layers) : Len(layers[i].output_names) <= 1
    /\ Len(layers) = 3
    /\ layers[1].input_names # <<>>

SingleConsumer ==
    \A o \in DOMAIN tf_ops \ EndpointTensors :
        Cardinality({c \in DOMAIN tf_ops : o \in tf_ops[c].inputs}) <= 1

KnownTags == {"DepthwiseConv2dNative", "Conv2D", "MatMul", "MaxPool", "AvgPool", "Reshape"}

TagsOf(name) == {tf_ops[o].type : o \in get_layer_ops(endpoints[name])}

\* C6 as stated: when a layer's op set matches no known pattern the pass
\* ends in an error that names the offending layer, and no endpoint after it
\* in processing order is in the Graph or in removed_layer_names.
C6_Original ==
    (pc = "error" /\ TagsOf(keys[idx + 1]) \cap KnownTags = {}) =>
        /\ InList(keys[idx + 1], err.args)
        /\ \A k \in (idx + 2)..Len(keys) :
              keys[k] \notin LayerNames /\ ~InList(keys[k], removed_layer_names)

\* C8: in every state of a construction pass, for layers A and B both in
\* Graph.layers, B's name is in A.output_names exactly when A's name is in
\* B.input_names.
C8_AdjacencySymmetric ==
    \A i, j \in 1..Len(layers) :
        InList(layers[j].name, layers[i].output_names)
            <=> InList(layers[i].name, layers[j].input_names)

\* two connected layers are in the Graph and a third layer they were
\* connected to has been removed
C8_Witness ==
    /\ Len(layers) >= 2
    /\ \E i, j \in 1..Len(layers) : InList(layers[j].name, layers[i].output_names)
    /\ \E i \in 1..Len(layers) :
          get_input_layer_names(endpoints[layers[i].name]) \cap Range(removed_layer_names) # {}

\* C9: on the Graph of a construction pass get_ordered_layers() advances to
\* a layer not yet visited or stops: no layer is collected twice, and the
\* layer about to be collected has not been collected before.
C9_WalkVisitsOnce ==
    pc \in {"walk", "done"} =>
        /\ IsDupFree(ordered)
        /\ cur_layer # 0 => ~InList(cur_layer, ordered)

\* the walk has ended after two or more layers, on a Graph with a removal
C9_Witness ==
    /\ pc = "done"
    /\ Len(ordered) >= 2
    /\ removed_layer_names # <<>>

\* the names the pass removes: a function of the graph, the endpoints and
\* only_2d, not of the dict order
RemovedSet ==
    {n \in DOMAIN endpoints :
        only_2d /\ TagsOf(n) \cap {"DepthwiseConv2dNative", "Conv2D", "MaxPool", "AvgPool"} = {}}

\* C10: the result of the pass does not depend on the processing order: the
\* removed names are the same set, the retained layers the same, and each
\* retained layer's input_names and output_names are its constructed names
\* minus all removed names.
C10_OrderIndependent ==
    AllConstructed =>
        /\ Range(removed_layer_names) = RemovedSet
        /\ LayerNames = DOMAIN endpoints \ RemovedSet
        /\ \A i \in 1..Len(layers) :
            /\ Range(layers[i].input_names) =
                   get_input_layer_names(endpoints[layers[i].name]) \ RemovedSet
            /\ Range(layers[i].output_names) =
                   {n \in DOMAIN endpoints :
                       layers[i].name \in get_input_layer_names(endpoints[n])} \ RemovedSet

\* a pass is complete in which a layer was added before a layer it names
\* was removed, and another after a layer it names was removed
C10_Witness ==
    /\ AllConstructed
    /\ \E i, j \in 1..Len(keys) : \E a, b \in 1..Len(layers) :
        /\ keys[i] \in RemovedSet /\ keys[j] \in RemovedSet
        /\ \E x, y \in 1..Len(keys) :
            /\ keys[x] = layers[a].name /\ keys[y] = layers[b].name
            /\ x < i /\ keys[i] \in get_input_layer_names(endpoints[layers[a].name])
            /\ j < y /\ keys[j] \in get_input_layer_names(endpoints[layers[b].name])

----------------------------------------------------------------------------
(* Properties of the construction of one layer (SpecLayer) *)

\* the constructor has run on the endpoint
Built == idx = 1 \/ pc = "error"

\* the op-type tags of the one layer's op set
T == {tf_ops[o].type : o \in DOMAIN tf_ops}

\* the op_type attribute the constructor has set, "unset" if it raised first
ObservedOpType == IF pc = "error" THEN err.op_type ELSE layer.op_type

Unrecognized ==
    /\ pc = "error"
    /\ err.fmt = "Could not match layer with a known op type"
    /\ err.op_type = "unset"

\* C2: classification is first match wins over the tag set: depthwise and
\* conv -> separable; depthwise -> depthwise; conv -> conv; MatMul -> dense;
\* MaxPool -> max pool; AvgPool -> avg pool; Reshape -> flatten; else an
\* error.  A tag set with both convolution tags is separable whatever else
\* it holds.
C2_ClassificationOrder ==
    Built =>
        LET dw == "DepthwiseConv2dNative" \in T
            cv == "Conv2D" \in T
            mm == "MatMul" \in T
            mp == "MaxPool" \in T
            ap == "AvgPool" \in T
            rs == "Reshape" \in T
        IN  /\ (dw /\ cv) => ObservedOpType = DEPTHWISE_SEPARABLE_CONV_2D
            /\ (dw /\ ~cv) => ObservedOpType = DEPTHWISE_CONV_2D
            /\ (~dw /\ cv) => ObservedOpType = CONV_2D
            /\ (~dw /\ ~cv /\ mm) => ObservedOpType = DENSE
            /\ (~dw /\ ~cv /\ ~mm /\ mp) => ObservedOpType = MAX_POOL_2D
            /\ (~dw /\ ~cv /\ ~mm /\ ~mp /\ ap) => ObservedOpType = AVG_POOL_2D
            /\ (~dw /\ ~cv /\ ~mm /\ ~mp /\ ~ap /\ rs) => ObservedOpType = FLATTEN
            /\ (~dw /\ ~cv /\ ~mm /\ ~mp /\ ~ap /\ ~rs) <=> Unrecognized

\* a layer holding both convolution tags and a third tag has been built
C2_Witness ==
    /\ Built
    /\ pc # "error"
    /\ {"DepthwiseConv2dNative", "Conv2D", "BiasAdd"} \subseteq T
    /\ layer.op_type = DEPTHWISE_SEPARABLE_CONV_2D

\* C7 as stated: for a trainable layer the bias is the second input of a
\* bias-add op if the op set has one; otherwise, for a dense layer with a
\* plain add op, the second input of that add op; otherwise extraction fails
\* with the missing-bias error, and with no other failure.
C7_Original ==
    (Built /\ T \cap {"DepthwiseConv2dNative", "Conv2D", "MatMul"} # {}) =>
        IF "BiasAdd" \in T
        THEN /\ pc # "error"
             /\ layer.bias.index = 1
             /\ tf_ops[layer.bias.op].type = "BiasAdd"
        ELSE IF /\ "MatMul" \in T
                /\ "DepthwiseConv2dNative" \notin T
                /\ "Conv2D" \notin T
                /\ "Add" \in T
        THEN /\ pc # "error"
             /\ layer.bias.index = 1
             /\ tf_ops[layer.bias.op].type = "Add"
        ELSE /\ pc = "error"
             /\ err.fmt = "No bias found in layer: %s"
             /\ err.args = <<keys[1]>>

====
